---- MODULE Spec2Model ----
(***************************************************************************)
(* Geocoin-Carrier (src/src/main.ts): a single page whose state is the     *)
(* player location, the movement history, the player's coins, the cache    *)
(* memento, the coin id counter and registry, the rectangles on the map    *)
(* with the coin arrays their popups close over, the geolocation toggle    *)
(* and the "gameState" entry of localStorage.  Every event handler runs    *)
(* to completion, so each handler is one action.                           *)
(*                                                                         *)
(* JavaScript numbers are IEEE-754 binary64.  A latitude or longitude is   *)
(* held exactly, as sign and magnitude, the magnitude an integer count of  *)
(* 2^-66 degrees (the unit in the last place of 1e-4) in three base-2^30   *)
(* limbs, least significant first; sums are rounded to 53 significant bits *)
(* with ties to even, as the hardware does.                                *)
(***************************************************************************)
EXTENDS Integers, Sequences, FiniteSets, TLC

\* ------------------------------------------------------------ bounds
\* movePlayer is disabled once the movement history holds MaxTrail points
MaxTrail == 1
\* the reset button is disabled once Coin.nextID has reached MaxNextID
MaxNextID == 3
\* the bound on the movement history in the specification of walks alone
MaxWalk == 2
\* position callbacks the browser may hold queued at one time
MaxPending == 1

\* ------------------------------------------------- binary64 arithmetic
Base == 2^30
Pow2 == [k \in 0..30 |-> 2^k]

Zero3 == <<0, 0, 0>>

\* number of significant bits of a limb
RECURSIVE BitLenInt(_)
BitLenInt(x) == IF x = 0 THEN 0 ELSE 1 + BitLenInt(x \div 2)

BitLen(N) ==
  IF N[3] # 0 THEN 60 + BitLenInt(N[3])
  ELSE IF N[2] # 0 THEN 30 + BitLenInt(N[2])
  ELSE BitLenInt(N[1])

\* N >= M on magnitudes
Geq(N, M) ==
  IF N[3] # M[3] THEN N[3] > M[3]
  ELSE IF N[2] # M[2] THEN N[2] > M[2]
  ELSE N[1] >= M[1]

AddM(N, M) ==
  LET s1 == N[1] + M[1]
      s2 == N[2] + M[2] + (s1 \div Base)
      s3 == N[3] + M[3] + (s2 \div Base)
  IN  <<s1 % Base, s2 % Base, s3>>

\* N - M for N >= M
SubM(N, M) ==
  LET d1 == N[1] - M[1]
      b1 == IF d1 < 0 THEN 1 ELSE 0
      d2 == N[2] - M[2] - b1
      b2 == IF d2 < 0 THEN 1 ELSE 0
  IN  <<d1 + b1 * Base, d2 + b2 * Base, N[3] - M[3] - b2>>

\* N * 2^b for 0 <= b < 30 (the result fits three limbs)
Shl(N, b) ==
  LET lo == Pow2[30 - b]
      up == Pow2[b]
  IN  << (N[1] % lo) * up,
         (N[2] % lo) * up + (N[1] \div lo),
         (N[3] % lo) * up + (N[2] \div lo) >>

\* round a magnitude to 53 significant bits, ties to even
Round53(S) ==
  LET L == BitLen(S) IN
  IF L <= 53 THEN S
  ELSE LET s    == L - 53
           rem  == S[1] % Pow2[s]
           half == Pow2[s - 1]
           lsb  == (S[1] \div Pow2[s]) % 2
           down == <<S[1] - rem, S[2], S[3]>>
       IN  IF rem > half \/ (rem = half /\ lsb = 1)
           THEN AddM(down, <<Pow2[s], 0, 0>>)
           ELSE down

Dbl(neg, a, b, c) == [neg |-> neg, mag |-> <<a, b, c>>]

Negate(x) == IF x.mag = Zero3 THEN x ELSE [x EXCEPT !.neg = ~x.neg]

\* x + y of two numbers
NumAdd(x, y) ==
  IF x.neg = y.neg
  THEN [neg |-> x.neg, mag |-> Round53(AddM(x.mag, y.mag))]
  ELSE IF x.mag = y.mag THEN [neg |-> FALSE, mag |-> Zero3]
  ELSE IF Geq(x.mag, y.mag)
       THEN [neg |-> x.neg, mag |-> Round53(SubM(x.mag, y.mag))]
       ELSE [neg |-> y.neg, mag |-> Round53(SubM(y.mag, x.mag))]

\* x - y of two numbers
NumSub(x, y) == NumAdd(x, Negate(y))

\* ---------------------------------------------------------- constants
\* const TILE_DEGREES = 1e-4: the binary64 nearest 1e-4 is
\* 0x1.a36e2eb1c432dp-14 = 7378697629483821 * 2^-66
TILE_DEGREES == Dbl(FALSE, 723272493, 6871947, 0)
NEIGHBORHOOD_SIZE == 8
\* CACHE_SPAWN_PROBABILITY = 0.1, in hundredths (luck values are hundredths)
CACHE_SPAWN_PROBABILITY == 10
\* leaflet.latLng(36.98952979588401, -122.06275528548504):
\* 0x1.27ea8e98fdea4p+5 and -0x1.e84042ebeb3cdp+6
OAKES_CLASSROOM ==
  [lat |-> Dbl(FALSE, 891289600, 354234875, 2367),
   lng |-> Dbl(TRUE, 1020264448, 17543084, 7812)]

\* ------------------------------------------------------------ getCell
\* long division of magnitude R by TILE_DEGREES, quotient bits b..0
RECURSIVE DivLoop(_, _, _)
DivLoop(R, b, q) ==
  IF b < 0 THEN <<q, R>>
  ELSE LET D == Shl(TILE_DEGREES.mag, b) IN
       IF Geq(R, D) THEN DivLoop(SubM(R, D), b - 1, q + Pow2[b])
       ELSE DivLoop(R, b - 1, q)

\* Math.floor(x / TILE_DEGREES): the exact quotient n + r/T is first rounded
\* to binary64 by the division, which carries it to the next integer when it
\* lies within half a unit in the last place of it, and then floored.
FloorDivTile(x) ==
  LET T   == TILE_DEGREES.mag
      top == BitLen(x.mag) - BitLen(T)
      qr  == IF top < 0 THEN <<0, x.mag>> ELSE DivLoop(x.mag, top, 0)
      n   == qr[1]
      r   == qr[2]
      J   == 54 - BitLenInt(n)
      thr == T[2] \div Pow2[J - 30]
      small(d) == d[3] = 0 /\ d[2] = 0 /\ d[1] <= thr
  IN  IF ~x.neg
      THEN IF small(SubM(T, r)) THEN n + 1 ELSE n
      ELSE IF r = Zero3 \/ small(r) THEN 0 - n ELSE 0 - (n + 1)

\* cellFactory.getCell; the flyweight cellCache only memoises the {i, j}
\* object per key and is read for i and j alone.
getCell(lat, lng) == <<FloorDivTile(lat), FloorDivTile(lng)>>


\* --------------------------------------------------------------- luck
\* The cells of the world that the placement function favours.  luck.ts is
\* not part of the sources at hand: a fixed table stands for the hash, with
\* values in hundredths.  CellA is the start cell, CellB lies nine rows
\* north of it and CellZ nine columns east of it; CellC and CellD lie nine
\* rows south of it, next to each other.
CellA == <<369895, -1220628>>
CellB == <<369904, -1220628>>
CellZ == <<369895, -1220619>>
CellC == <<369886, -1220628>>
CellD == <<369886, -1220627>>

\* luck(key): a reproducible value in [0,1), here in 0..99 hundredths.
\* key is [i, j] for the placement and [i, j, "coinCount"] for the count.
luck(key) ==
  LET c == <<key[1], key[2]>> IN
  IF Len(key) = 2
  THEN (IF c = CellA THEN 3 ELSE IF c = CellB THEN 7 ELSE IF c = CellZ THEN 9
        ELSE IF c \in {CellC, CellD} THEN 5 ELSE 50)
  ELSE (IF c = CellA THEN 25 ELSE IF c = CellB THEN 25 ELSE IF c = CellZ THEN 10
        ELSE IF c \in {CellC, CellD} THEN 10 ELSE 99)

\* ------------------------------------------------- the memento (a Map)
\* A JavaScript Map keeps insertion order: a sequence of entries with
\* distinct keys.  The key `${i},${j}` is held as the pair <<i, j>>.
MapKeys(m) == {m[k].key : k \in DOMAIN m}
MapHas(m, key) == key \in MapKeys(m)
MapGet(m, key) == m[CHOOSE k \in DOMAIN m : m[k].key = key].coins
MapSet(m, key, coins) ==
  IF MapHas(m, key)
  THEN [k \in DOMAIN m |-> IF m[k].key = key THEN [key |-> key, coins |-> coins] ELSE m[k]]
  ELSE Append(m, [key |-> key, coins |-> coins])

\* saveCacheState(i, j, coins): stores a copy of the array
saveCacheState(m, key, coins) == MapSet(m, key, coins)

\* -------------------------------------------------------------- coins
\* new Coin(i, j, serial) with Coin.nextID = id.  obj is the identity of the
\* object (the value of the counter when it was constructed, which no later
\* assignment changes); coinID is the field loadGameState overwrites.
\* currentOwner is set to {i, j} here and never written again.
NewCoin(id, i, j, serial) ==
  [obj |-> id, coinID |-> id, i |-> i, j |-> j, serial |-> serial]

\* The part of the page a refresh works on: h.memento (cacheStateMemento),
\* h.nextID (Coin.nextID), h.registry (globalCoinRegistry, entry k+1 keyed k)
\* and h.rects (the rectangles on the map, each with the coins array its
\* popup closes over).
EmptyRects == [c \in {} |-> <<>>]

\* Math.floor(luck([i, j, "coinCount"].toString()) * 5)
initialCoinCount(c) == (luck(<<c[1], c[2], "coinCount">>) * 5) \div 100

\* a spawnCache that never looks at the memento: coins are made on each visit
spawnCacheAlways(h, c) ==
  LET n     == initialCoinCount(c)
      coins == [k \in 1..n |-> NewCoin(h.nextID + k - 1, c[1], c[2], k - 1)]
  IN  [memento  |-> saveCacheState(h.memento, c, coins),
       nextID   |-> h.nextID + n,
       registry |-> h.registry \o coins,
       rects    |-> [d \in DOMAIN h.rects \cup {c} |->
                       IF d = c THEN coins ELSE h.rects[d]]]

\* spawnCache(i, j)
spawnCache(h, c) ==
  IF MapHas(h.memento, c)
  THEN [h EXCEPT !.rects = [d \in DOMAIN h.rects \cup {c} |->
                              IF d = c THEN MapGet(h.memento, c) ELSE h.rects[d]]]
  ELSE LET n     == initialCoinCount(c)
           coins == [k \in 1..n |-> NewCoin(h.nextID + k - 1, c[1], c[2], k - 1)]
       IN  [memento  |-> saveCacheState(h.memento, c, coins),
            nextID   |-> h.nextID + n,
            registry |-> h.registry \o coins,
            rects    |-> [d \in DOMAIN h.rects \cup {c} |->
                            IF d = c THEN coins ELSE h.rects[d]]]

\* the cells of the neighbourhood that get a cache, a set
SpawnCells(center) ==
  {c \in ((center[1] - NEIGHBORHOOD_SIZE)..(center[1] + NEIGHBORHOOD_SIZE))
           \X ((center[2] - NEIGHBORHOOD_SIZE)..(center[2] + NEIGHBORHOOD_SIZE)) :
     luck(<<c[1], c[2]>>) < CACHE_SPAWN_PROBABILITY}

\* the first of a set of cells in the order of the two loops (di, then dj)
FirstCell(S) ==
  CHOOSE c \in S : \A d \in S : c[1] < d[1] \/ (c[1] = d[1] /\ c[2] <= d[2])

RECURSIVE SpawnAll(_, _)
SpawnAll(h, S) ==
  IF S = {} THEN h
  ELSE LET c == FirstCell(S) IN SpawnAll(spawnCache(h, c), S \ {c})

\* a refresh that leaves the rectangles of the earlier neighbourhood on the map
refreshNeighborhoodKeep(h, loc) ==
  SpawnAll(h, SpawnCells(getCell(loc.lat, loc.lng)))

\* refreshNeighborhood(): every rectangle is removed, then each favoured
\* cell around the player's cell is spawned
refreshNeighborhood(h, loc) ==
  SpawnAll([h EXCEPT !.rects = EmptyRects], SpawnCells(getCell(loc.lat, loc.lng)))


\* ------------------------------------------------------- localStorage
\* The "gameState" entry: kind "none" (getItem returns null), "garbage"
\* (text JSON.parse rejects) or "json" (an object with the fields named in
\* fields; saveGameState writes all four).
AllFields == {"playerLocation", "playerCoins", "cacheStates", "movementHistory"}

NoGameState ==
  [playerLocation |-> OAKES_CLASSROOM, playerCoins |-> <<>>,
   cacheStates |-> <<>>, movementHistory |-> <<>>]

NoItem == [kind |-> "none", fields |-> {}, gameState |-> NoGameState]
Garbage == [kind |-> "garbage", fields |-> {}, gameState |-> NoGameState]

\* what JSON keeps of a coin
CoinData(coin) ==
  [coinID |-> coin.coinID, i |-> coin.i, j |-> coin.j, serial |-> coin.serial]

CoinDatas(coins) == [k \in DOMAIN coins |-> CoinData(coins[k])]

\* the object saveGameState builds from the page p.  A finite binary64
\* written by JSON.stringify and read by JSON.parse is the same binary64.
gameStateOf(p) ==
  [playerLocation  |-> [lat |-> p.playerLocation.lat, lng |-> p.playerLocation.lng],
   playerCoins     |-> CoinDatas(p.playerCoins),
   cacheStates     |-> [k \in DOMAIN p.h.memento |->
                          [key |-> p.h.memento[k].key,
                           coins |-> CoinDatas(p.h.memento[k].coins)]],
   movementHistory |-> p.movementHistory]

\* saveGameState(): the value of localStorage.gameState afterwards
saveGameState(p) ==
  [kind |-> "json", fields |-> AllFields, gameState |-> gameStateOf(p)]

\* a restore that keeps the id generateCoin gave and drops the saved one
RestoreCoinsFresh(datas, id0) ==
  [k \in DOMAIN datas |-> NewCoin(id0 + k - 1, datas[k].i, datas[k].j, datas[k].serial)]

\* the coins loadGameState rebuilds from saved data: generateCoin gives each
\* the next counter value, then coinID is overwritten with the saved id
RestoreCoins(datas, id0) ==
  [k \in DOMAIN datas |->
     [NewCoin(id0 + k - 1, datas[k].i, datas[k].j, datas[k].serial)
        EXCEPT !.coinID = datas[k].coinID]]

\* gameState.cacheStates.forEach(...) from entry k on
RECURSIVE RestoreCaches(_, _, _)
RestoreCaches(h, cs, k) ==
  IF k > Len(cs) THEN h
  ELSE LET coins == RestoreCoins(cs[k].coins, h.nextID) IN
       RestoreCaches([h EXCEPT !.memento  = MapSet(h.memento, cs[k].key, coins),
                               !.nextID   = h.nextID + Len(coins),
                               !.registry = h.registry \o coins],
                     cs, k + 1)

\* loadGameState() on page p: the page afterwards, and whether an exception
\* left the function (JSON.parse on garbage, or a TypeError at the first
\* missing field; the statements before it have run).
loadGameState(p, st) ==
  IF st.kind = "none" THEN [page |-> p, threw |-> FALSE]
  ELSE IF st.kind = "garbage" THEN [page |-> p, threw |-> TRUE]
  ELSE
    LET g  == st.gameState
        p1 == [p EXCEPT !.playerLocation = g.playerLocation]
        p2 == [p1 EXCEPT !.playerCoins = <<>>]
        pc == RestoreCoins(g.playerCoins, p.h.nextID)
        p3 == [p2 EXCEPT !.playerCoins = pc,
                         !.h.nextID = p.h.nextID + Len(pc),
                         !.h.registry = p.h.registry \o pc]
        p4 == [p3 EXCEPT !.h.memento = <<>>]
        p5 == [p4 EXCEPT !.h = RestoreCaches(p4.h, g.cacheStates, 1)]
        p6 == [p5 EXCEPT !.movementHistory = <<>>]
        p7 == [p6 EXCEPT !.movementHistory = g.movementHistory]
        p8 == [p7 EXCEPT !.h = refreshNeighborhood(p7.h, p7.playerLocation)]
    IN  IF "playerLocation" \notin st.fields THEN [page |-> p, threw |-> TRUE]
        ELSE IF "playerCoins" \notin st.fields THEN [page |-> p2, threw |-> TRUE]
        ELSE IF "cacheStates" \notin st.fields THEN [page |-> p4, threw |-> TRUE]
        ELSE IF "movementHistory" \notin st.fields THEN [page |-> p6, threw |-> TRUE]
        ELSE [page |-> p8, threw |-> FALSE]

\* the module's top-level code up to the first refreshNeighborhood()
FreshPage ==
  [playerLocation  |-> OAKES_CLASSROOM,
   playerCoins     |-> <<>>,
   movementHistory |-> <<>>,
   h |-> refreshNeighborhood(
           [memento |-> <<>>, nextID |-> 0, registry |-> <<>>, rects |-> EmptyRects],
           OAKES_CLASSROOM)]

\* a page load with st in localStorage: the top-level code, then
\* loadGameState(); the reset handler is registered after it returns
PageLoad(st) == loadGameState(FreshPage, st)


\* ------------------------------------- the version without persistence
\* src/unnamed/part_000: an earlier build of the page.  It has the caches of
\* the start neighbourhood only, a counter playerPoints in place of the
\* inventory, and neither steps nor storage.  Its page is the record
\* [playerPoints, nextID, registry, caches]: registry is globalCoinRegistry
\* (entry k+1 keyed k, each coin with its currentOwner), caches holds one
\* entry per spawnCache call, with the ids of the coins in its array.

\* leaflet.latLng(36.98949379578401, -122.06277128548504):
\* 0x1.27ea8d6a094e4p+5 and -0x1.e840472196bcdp+6
OAKES_CLASSROOM0 ==
  [lat |-> Dbl(FALSE, 854065152, 351760967, 2367),
   lng |-> Dbl(TRUE, 620756992, 18642596, 7812)]

\* n * M on magnitudes, for a small n
RECURSIVE MulSmall(_, _)
MulSmall(M, n) == IF n = 0 THEN Zero3 ELSE AddM(M, MulSmall(M, n - 1))

\* di * TILE_DEGREES
TimesTile(di) ==
  IF di = 0 THEN [neg |-> FALSE, mag |-> Zero3]
  ELSE [neg |-> di < 0,
        mag |-> Round53(MulSmall(TILE_DEGREES.mag, IF di < 0 THEN -di ELSE di))]

\* the cell the n-th round of the two loops looks at (di outer, dj inner)
LoopCell(n) ==
  LET w  == 2 * NEIGHBORHOOD_SIZE + 1
      di == ((n - 1) \div w) - NEIGHBORHOOD_SIZE
      dj == ((n - 1) % w) - NEIGHBORHOOD_SIZE
  IN  getCell(NumAdd(OAKES_CLASSROOM0.lat, TimesTile(di)),
              NumAdd(OAKES_CLASSROOM0.lng, TimesTile(dj)))

\* currentOwner: "player", or the {i, j} of a cache
OwnedByPlayer == [player |-> TRUE, i |-> 0, j |-> 0]
OwnedByCache(c) == [player |-> FALSE, i |-> c[1], j |-> c[2]]

\* Math.floor(luck([i, j, "coinCount"].toString()) * 5) + 1
initialCoinCount0(c) == ((luck(<<c[1], c[2], "coinCount">>) * 5) \div 100) + 1

\* spawnCache(i, j) of part_000 on its page s
spawnCache0(s, c) ==
  LET n     == initialCoinCount0(c)
      coins == [k \in 1..n |->
                  [coinID |-> s.nextID + k - 1, i |-> c[1], j |-> c[2],
                   serial |-> k - 1, currentOwner |-> OwnedByCache(c)]]
  IN  [s EXCEPT !.nextID = s.nextID + n,
                !.registry = s.registry \o coins,
                !.caches = Append(s.caches,
                                  [cell |-> c,
                                   coins |-> [k \in 1..n |-> s.nextID + k - 1]])]

\* the cells the two loops hand to spawnCache, in order
Favoured0(c) == luck(<<c[1], c[2]>>) < CACHE_SPAWN_PROBABILITY

LoopCells0 ==
  SelectSeq([n \in 1..((2 * NEIGHBORHOOD_SIZE + 1) * (2 * NEIGHBORHOOD_SIZE + 1)) |->
               LoopCell(n)],
            Favoured0)

RECURSIVE SpawnLoop0(_, _)
SpawnLoop0(s, n) ==
  IF n > Len(LoopCells0) THEN s
  ELSE SpawnLoop0(spawnCache0(s, LoopCells0[n]), n + 1)

\* the page of part_000 once its top-level code has run
SimplePage ==
  SpawnLoop0([playerPoints |-> 0, nextID |-> 0, registry |-> <<>>, caches |-> <<>>], 1)

\* a collect listener that forgets collectedCoin.currentOwner = "player"
collect0NoOwner(s, k) ==
  LET coins == s.caches[k].coins IN
  IF Len(coins) > 0
  THEN [s EXCEPT !.caches[k].coins = SubSeq(coins, 1, Len(coins) - 1),
                 !.playerPoints = s.playerPoints + 1]
  ELSE s

\* the collect click listener of the popup of cache k of part_000
collect0(s, k) ==
  LET coins == s.caches[k].coins IN
  IF Len(coins) > 0
  THEN LET id == coins[Len(coins)] IN
       [s EXCEPT !.caches[k].coins = SubSeq(coins, 1, Len(coins) - 1),
                 !.registry[id + 1].currentOwner = OwnedByPlayer,
                 !.playerPoints = s.playerPoints + 1]
  ELSE s                                 \* alert("No more coins to collect!")

\* the deposit click listener of the popup of cache k of part_000
deposit0(s, k) ==
  LET mine == {n \in DOMAIN s.registry : s.registry[n].currentOwner = OwnedByPlayer} IN
  IF s.playerPoints > 0
  THEN IF mine # {}
       THEN LET n == CHOOSE x \in mine : \A y \in mine : x <= y IN
            [s EXCEPT !.registry[n].currentOwner = OwnedByCache(s.caches[k].cell),
                      !.caches[k].coins = Append(s.caches[k].coins, s.registry[n].coinID),
                      !.playerPoints = s.playerPoints - 1]
       ELSE s
  ELSE s                                 \* alert("You don't have any coins ...")

\* -------------------------------------------------------------- state
VARIABLES
  playerLocation,      \* let playerLocation: [lat, lng]
  movementHistory,     \* const movementHistory: sequence of <<lat, lng>>
  playerCoins,         \* const playerCoins: Coin[]
  cacheStateMemento,   \* the Map of cell key to {coins}
  nextID,              \* Coin.nextID
  globalCoinRegistry,  \* the Map of constructor id to Coin
  rects,               \* rectangles on the map, each with its closure's coins
  storage,             \* localStorage.gameState
  isTrackingLocation,
  watchId,             \* 0 for null
  buttonColor,         \* globeButton.style.backgroundColor
  watchActive,         \* the browser holds a position watch for this page
  geoSupported,        \* navigator.geolocation exists
  pending,             \* positions of the watch's callbacks queued as tasks
  simple,              \* the page of the version without persistence
  resetInstalled,      \* the top-level code reached the reset listener
  last                 \* history: the handler that ran last

pageVars == <<playerLocation, movementHistory, playerCoins, cacheStateMemento,
              nextID, globalCoinRegistry, rects>>
geoVars == <<isTrackingLocation, watchId, buttonColor, watchActive>>
vars == <<pageVars, storage, geoVars, geoSupported, resetInstalled, last,
          pending, simple>>

Page ==
  [playerLocation  |-> playerLocation,
   playerCoins     |-> playerCoins,
   movementHistory |-> movementHistory,
   h |-> [memento |-> cacheStateMemento, nextID |-> nextID,
          registry |-> globalCoinRegistry, rects |-> rects]]

SetPage(p) ==
  /\ playerLocation' = p.playerLocation
  /\ playerCoins' = p.playerCoins
  /\ movementHistory' = p.movementHistory
  /\ cacheStateMemento' = p.h.memento
  /\ nextID' = p.h.nextID
  /\ globalCoinRegistry' = p.h.registry
  /\ rects' = p.h.rects

NoCell == <<0, 0>>

\* the history record: op names the handler that ran last ("" for the two
\* tracking toggles, which only alert); moved tells whether a collect or a
\* deposit moved a coin; a step records its direction and the cell it left,
\* and, when the handler before it was a step too, that step's direction and
\* the cell that one left
Hist(op) ==
  [op |-> op, moved |-> FALSE, dir |-> "", from |-> NoCell,
   prevDir |-> "", prevFrom |-> NoCell]

CellOf(loc) == getCell(loc.lat, loc.lng)

\* the positions the device reports while the model runs: the classroom,
\* and (-0.0002, 0.0003) = (-0x1.a36e2eb1c432dp-13, 0x1.3a92a30553261p-12)
FarAway ==
  [lat |-> Dbl(TRUE, 372803162, 13743895, 0),
   lng |-> Dbl(FALSE, 22333828, 20615843, 0)]

GeoFixes == {OAKES_CLASSROOM, FarAway}

Directions == {"north", "south", "east", "west"}

\* ---------------------------------------------------------- page load
\* the variables after a page load with st in localStorage
Loaded(st, supported, op) ==
  LET r == PageLoad(st) IN
  /\ SetPage(r.page)
  /\ resetInstalled' = ~r.threw
  /\ storage' = st
  /\ isTrackingLocation' = FALSE
  /\ watchId' = 0
  /\ buttonColor' = ""
  /\ watchActive' = FALSE
  /\ geoSupported' = supported
  /\ pending' = <<>>
  /\ simple' = simple
  /\ last' = Hist(op)

\* the variables when the page has been opened with st in localStorage
Opened(st, supported) ==
  LET r == PageLoad(st) IN
  /\ playerLocation = r.page.playerLocation
  /\ playerCoins = r.page.playerCoins
  /\ movementHistory = r.page.movementHistory
  /\ cacheStateMemento = r.page.h.memento
  /\ nextID = r.page.h.nextID
  /\ globalCoinRegistry = r.page.h.registry
  /\ rects = r.page.h.rects
  /\ resetInstalled = ~r.threw
  /\ storage = st
  /\ isTrackingLocation = FALSE
  /\ watchId = 0
  /\ buttonColor = ""
  /\ watchActive = FALSE
  /\ geoSupported = supported
  /\ pending = <<>>
  /\ simple = SimplePage
  /\ last = Hist("load")

\* the first visit: nothing is stored
Init == \E supported \in BOOLEAN : Opened(NoItem, supported)

\* the user reloads the page
Reload == Loaded(storage, geoSupported, "load")

\* ------------------------------------------------------------ movePlayer
Stepped(loc, dir) ==
  CASE dir = "north" -> [loc EXCEPT !.lat = NumAdd(loc.lat, TILE_DEGREES)]
    [] dir = "south" -> [loc EXCEPT !.lat = NumSub(loc.lat, TILE_DEGREES)]
    [] dir = "east"  -> [loc EXCEPT !.lng = NumAdd(loc.lng, TILE_DEGREES)]
    [] dir = "west"  -> [loc EXCEPT !.lng = NumSub(loc.lng, TILE_DEGREES)]

\* movePlayer(direction) on page p
movePlayer(p, dir) ==
  LET loc == Stepped(p.playerLocation, dir)
      p1  == [p EXCEPT !.playerLocation = loc,
                       !.movementHistory = Append(p.movementHistory, <<loc.lat, loc.lng>>)]
  IN  [p1 EXCEPT !.h = refreshNeighborhood(p1.h, loc)]

Move(dir, bound) ==
  /\ Len(movementHistory) < bound
  /\ LET p == movePlayer(Page, dir) IN
     /\ SetPage(p)
     /\ storage' = saveGameState(p)
  /\ last' = [Hist("move") EXCEPT
                !.dir = dir, !.from = CellOf(playerLocation),
                !.prevDir = IF last.op = "move" THEN last.dir ELSE "",
                !.prevFrom = IF last.op = "move" THEN last.from ELSE NoCell]
  /\ UNCHANGED <<geoVars, geoSupported, resetInstalled, pending, simple>>

MoveClick(dir) == Move(dir, MaxTrail)

WalkClick(dir) == Move(dir, MaxWalk)

\* ------------------------------------------------------- geolocation
\* the globeButton click handler
GlobeClick ==
  /\ IF isTrackingLocation
     THEN /\ watchActive' = IF watchId # 0 THEN FALSE ELSE watchActive
          /\ watchId' = 0
          /\ isTrackingLocation' = FALSE
          /\ buttonColor' = ""
          /\ last' = Hist("")          \* alert("Geolocation tracking disabled.")
     ELSE IF ~geoSupported
     THEN /\ UNCHANGED geoVars
          /\ last' = Hist("unsupported")  \* alert("... not supported ...")
     ELSE /\ isTrackingLocation' = TRUE
          /\ buttonColor' = "lightgreen"
          /\ watchId' = 1
          /\ watchActive' = TRUE
          /\ last' = Hist("")          \* alert("Geolocation tracking enabled.")
  /\ UNCHANGED <<pageVars, storage, geoSupported, resetInstalled, pending, simple>>

\* the success callback of watchPosition on page p
positionCallback(p, fix) ==
  LET p1 == [p EXCEPT !.playerLocation = fix]
  IN  [p1 EXCEPT !.h = refreshNeighborhood(p1.h, fix)]

GeoPosition(fix) ==
  /\ watchActive
  /\ SetPage(positionCallback(Page, fix))
  /\ last' = Hist("position")
  /\ UNCHANGED <<storage, geoVars, geoSupported, resetInstalled, pending, simple>>

\* the error callback of watchPosition (permission denied, timeout)
GeoError ==
  /\ watchActive
  /\ last' = Hist("positionError")   \* alert("Failed to get geolocation. ...")
  /\ UNCHANGED <<pageVars, storage, geoVars, geoSupported, resetInstalled, pending, simple>>

\* The browser runs the success callback as a task of the event loop: it
\* queues the task when the watch has a position, and the task runs when
\* its turn comes.  clearWatch() ends the watch; whether a task it had
\* queued before still runs is left to the browser, so both happen: the
\* task stays queued over a click on the globe button, and may never have
\* been queued at all.
GeoQueue(fix) ==
  /\ watchActive
  /\ Len(pending) < MaxPending
  /\ pending' = Append(pending, fix)
  /\ UNCHANGED <<pageVars, storage, geoVars, geoSupported, resetInstalled, last, simple>>

\* the queued task runs the success callback
GeoDeliver ==
  /\ pending # <<>>
  /\ SetPage(positionCallback(Page, Head(pending)))
  /\ pending' = Tail(pending)
  /\ last' = Hist("position")
  /\ UNCHANGED <<storage, geoVars, geoSupported, resetInstalled, simple>>

\* ------------------------------------------------------------- popups
\* A click on the rectangle of cell c opens its popup: the function given to
\* bindPopup builds a new div each time, and updatePopupUI() fills the two
\* selects from the closure's coins and from playerCoins, then and after
\* every transfer made through the popup.  Every other handler that writes
\* either array ends in refreshNeighborhood(), which removes the rectangle
\* and with it closes the popup.  So when a button of the popup of c is
\* clicked, its selects hold the options of the two arrays as they are.

\* the values a select with n options can hold: "" (here -1) when it has
\* none, else the index of one of its options
SelectValues(n) == IF n = 0 THEN {-1} ELSE 0..(n - 1)

\* array.splice(k, 1) of a 0-based index k: the array afterwards
SpliceOut(a, k) ==
  IF k < Len(a) THEN [n \in 1..(Len(a) - 1) |-> IF n <= k THEN a[n] ELSE a[n + 1]]
  ELSE a

\* what splice(k, 1)[0] is when k is not an index of the array
Undefined == [obj |-> -1, coinID |-> -1, i |-> 0, j |-> 0, serial |-> -1]

\* a listener tail that updates the popup's array and forgets the memento
SetCoinsViewOnly(p, c, coins) ==
  [p EXCEPT !.h.rects = [p.h.rects EXCEPT ![c] = coins]]

SetCoins(p, c, coins) ==
  [p EXCEPT !.h.memento = saveCacheState(p.h.memento, c, coins),
            !.h.rects = [p.h.rects EXCEPT ![c] = coins]]

\* a collect listener that forgets the splice: the coin stays in the cache
collectCoinKeep(p, c, value) ==
  LET coins == p.h.rects[c] IN
  IF Len(coins) > 0 /\ value >= 0 /\ value < Len(coins)
  THEN [page |-> SetCoins([p EXCEPT !.playerCoins = Append(p.playerCoins, coins[value + 1])],
                          c, coins),
        moved |-> TRUE]
  ELSE [page |-> p, moved |-> FALSE]

\* the collect click listener of the popup of cell c, its select holding
\* value: the page afterwards and whether a coin was moved
collectCoin(p, c, value) ==
  LET coins == p.h.rects[c] IN
  IF Len(coins) > 0 /\ value >= 0
  THEN IF value < Len(coins)
       THEN [page |-> SetCoins([p EXCEPT !.playerCoins = Append(p.playerCoins, coins[value + 1])],
                               c, SpliceOut(coins, value)),
             moved |-> TRUE]
       ELSE [page |-> p, moved |-> FALSE]
  ELSE [page |-> p, moved |-> FALSE]

\* a deposit listener that ignores the select and takes the first coin
depositCoinFirst(p, c, value) ==
  LET coins == p.h.rects[c] IN
  IF Len(p.playerCoins) > 0 /\ value >= 0
  THEN [page |-> SetCoins([p EXCEPT !.playerCoins = SpliceOut(p.playerCoins, 0)],
                          c, Append(coins, p.playerCoins[1])),
        moved |-> TRUE]
  ELSE [page |-> p, moved |-> FALSE]

\* a deposit listener without the guard on the inventory and the select
depositCoinUnguarded(p, c, value) ==
  LET coins    == p.h.rects[c]
      selected == IF value >= 0 /\ value < Len(p.playerCoins)
                  THEN p.playerCoins[value + 1] ELSE Undefined
  IN  [page |-> SetCoins([p EXCEPT !.playerCoins = SpliceOut(p.playerCoins, value)],
                         c, Append(coins, selected)),
       moved |-> TRUE]

\* a deposit listener that forgets the splice: the coin stays in the inventory
depositCoinCopy(p, c, value) ==
  LET coins == p.h.rects[c] IN
  IF Len(p.playerCoins) > 0 /\ value >= 0
  THEN LET selected == IF value < Len(p.playerCoins)
                       THEN p.playerCoins[value + 1] ELSE Undefined
       IN  [page |-> SetCoins(p, c, Append(coins, selected)),
            moved |-> TRUE]
  ELSE [page |-> p, moved |-> FALSE]

\* the deposit click listener of the popup of cell c
depositCoin(p, c, value) ==
  LET coins == p.h.rects[c] IN
  IF Len(p.playerCoins) > 0 /\ value >= 0
  THEN LET selected == IF value < Len(p.playerCoins)
                       THEN p.playerCoins[value + 1] ELSE Undefined
       IN  [page |-> SetCoins([p EXCEPT !.playerCoins = SpliceOut(p.playerCoins, value)],
                              c, Append(coins, selected)),
            moved |-> TRUE]
  ELSE [page |-> p, moved |-> FALSE]

\* saveGameState() reads coin.coinID of every coin and throws on undefined
CanSave(p) ==
  /\ \A k \in DOMAIN p.playerCoins : p.playerCoins[k] # Undefined
  /\ \A e \in DOMAIN p.h.memento :
       \A k \in DOMAIN p.h.memento[e].coins : p.h.memento[e].coins[k] # Undefined

\* the tail of both listeners once a coin was moved: updatePopupUI(),
\* updateStatusPanel(), saveGameState()
AfterTransfer(r, op) ==
  /\ SetPage(r.page)
  /\ storage' = IF r.moved /\ CanSave(r.page) THEN saveGameState(r.page) ELSE storage
  /\ last' = [Hist(op) EXCEPT !.moved = r.moved]
  /\ UNCHANGED <<geoVars, geoSupported, resetInstalled, pending, simple>>

\* the user opens the popup of cell c, may pick an option, clicks Collect
CollectClick(c, value) ==
  /\ c \in DOMAIN rects
  /\ value \in SelectValues(Len(rects[c]))
  /\ AfterTransfer(collectCoin(Page, c, value), "collect")

\* the user opens the popup of cell c, may pick an option, clicks Deposit
DepositClick(c, value) ==
  /\ c \in DOMAIN rects
  /\ value \in SelectValues(Len(playerCoins))
  /\ AfterTransfer(depositCoin(Page, c, value), "deposit")

\* -------------------------------------------------------------- reset
\* a reset that forgets cacheStateMemento.clear()
resetGameKeep(p) ==
  LET p1 == [p EXCEPT !.playerLocation = OAKES_CLASSROOM,
                      !.movementHistory = <<>>,
                      !.playerCoins = <<>>]
  IN  [p1 EXCEPT !.h = refreshNeighborhood(p1.h, p1.playerLocation)]

\* a reset that forgets playerCoins.length = 0
resetGameKeepCoins(p) ==
  LET p1 == [p EXCEPT !.playerLocation = OAKES_CLASSROOM,
                      !.movementHistory = <<>>,
                      !.h.memento = <<>>]
  IN  [p1 EXCEPT !.h = refreshNeighborhood(p1.h, p1.playerLocation)]

\* the reset click listener on page p (localStorage.clear() apart)
resetGame(p) ==
  LET p1 == [p EXCEPT !.playerLocation = OAKES_CLASSROOM,
                      !.movementHistory = <<>>,
                      !.playerCoins = <<>>,
                      !.h.memento = <<>>]
  IN  [p1 EXCEPT !.h = refreshNeighborhood(p1.h, p1.playerLocation)]

\* a reset click that forgets localStorage.clear()
ResetClickKeepBlob ==
  /\ resetInstalled
  /\ nextID < MaxNextID
  /\ storage' = storage
  /\ SetPage(resetGame(Page))
  /\ last' = Hist("reset")
  /\ UNCHANGED <<geoVars, geoSupported, resetInstalled, pending, simple>>

ResetClick ==
  /\ resetInstalled
  /\ nextID < MaxNextID
  /\ storage' = NoItem
  /\ SetPage(resetGame(Page))
  /\ last' = Hist("reset")           \* alert("Game reset successfully!")
  /\ UNCHANGED <<geoVars, geoSupported, resetInstalled, pending, simple>>

\* ------------------------------------------- clicks of part_000
\* the user opens the popup of cache k of part_000 and clicks Collect
Collect0Click(k) ==
  /\ simple' = collect0(simple, k)
  /\ UNCHANGED <<pageVars, storage, geoVars, geoSupported, resetInstalled, last, pending>>

\* the user opens the popup of cache k of part_000 and clicks Deposit
Deposit0Click(k) ==
  /\ simple' = deposit0(simple, k)
  /\ UNCHANGED <<pageVars, storage, geoVars, geoSupported, resetInstalled, last, pending>>

\* ------------------------------------------------------ specifications
Next ==
  \/ \E dir \in Directions : MoveClick(dir)
  \/ GlobeClick
  \/ \E fix \in GeoFixes : GeoPosition(fix)
  \/ GeoError
  \/ \E c \in DOMAIN rects, value \in -1..3 : CollectClick(c, value)
  \/ \E c \in DOMAIN rects, value \in -1..3 : DepositClick(c, value)
  \/ ResetClick
  \/ Reload

Spec == Init /\ [][Next]_vars

\* What a page load can find in localStorage.gameState when the entry was
\* not left by this build alone (another page of the origin, the developer
\* tools, an older build): nothing, text that is no JSON, or a saved game
\* that lacks one of the four fields.  The saved games are those of a first
\* visit after one step north, and after collecting the coin of the start
\* cell.
SavedGames ==
  LET p == PageLoad(NoItem).page IN
  {saveGameState(movePlayer(p, "north")),
   saveGameState(collectCoin(p, CellA, 0).page)}

StoredEntries ==
  {NoItem, Garbage}
    \cup {[g EXCEPT !.fields = AllFields \ {f}] : g \in SavedGames, f \in AllFields}

InitTamper == \E st \in StoredEntries : Opened(st, TRUE)

\* the game played by hand from there
NextTamper ==
  \/ \E dir \in Directions : MoveClick(dir)
  \/ \E c \in DOMAIN rects, value \in -1..3 : CollectClick(c, value)
  \/ \E c \in DOMAIN rects, value \in -1..3 : DepositClick(c, value)
  \/ ResetClick
  \/ Reload

SpecTamper == InitTamper /\ [][NextTamper]_vars

\* the player walks: steps, the tracking toggle and position updates only
NextWalk ==
  \/ \E dir \in Directions : WalkClick(dir)
  \/ GlobeClick
  \/ \E fix \in GeoFixes : GeoPosition(fix)

SpecWalk == Init /\ [][NextWalk]_vars

\* the position watch with its callbacks as queued tasks, and the steps
NextWatch ==
  \/ GlobeClick
  \/ \E fix \in GeoFixes : GeoQueue(fix)
  \/ GeoDeliver
  \/ GeoError
  \/ \E dir \in Directions : MoveClick(dir)

SpecWatch == Init /\ [][NextWatch]_vars

\* part_000 alone: collect and deposit clicks on its caches
NextSimple ==
  \/ \E k \in DOMAIN simple.caches : Collect0Click(k)
  \/ \E k \in DOMAIN simple.caches : Deposit0Click(k)

SpecSimple == Init /\ [][NextSimple]_vars

\* ============================================================= claims
\* the coins of the ledger's entries from entry k on, one after another
RECURSIVE LedgerCoins(_, _)
LedgerCoins(m, k) ==
  IF k > Len(m) THEN <<>> ELSE m[k].coins \o LedgerCoins(m, k + 1)

\* every coin held by the inventory or by a cache of the ledger
HeldCoins == playerCoins \o LedgerCoins(cacheStateMemento, 1)

\* (sum of coins in all caches) + (player inventory size)
TotalCoins == Len(HeldCoins)

\* how often x occurs in the sequence a
Count(a, x) == Cardinality({k \in DOMAIN a : a[k] = x})

\* a and b hold the same elements, each as often
SameBag(a, b) ==
  /\ Len(a) = Len(b)
  /\ \A k \in DOMAIN a : Count(a, a[k]) = Count(b, a[k])

StartCell == CellOf(OAKES_CLASSROOM)

\* ------------------------------------------------------------------ C1
\* C1 (as the spec states it): in every reachable state no two distinct
\* coins held by a cache of the ledger or by the inventory share a coinID.
\* The code breaks it: Coin.nextID starts at 0 on every page load, so after
\* a reload a restored coin keeps a saved id that the counter has yet to
\* reach, and the next cache to be populated hands that id out again.
C1_CoinIdsUnique ==
  \A a, b \in DOMAIN HeldCoins :
    (a # b /\ HeldCoins[a].obj # HeldCoins[b].obj)
      => HeldCoins[a].coinID # HeldCoins[b].coinID

\* ------------------------------------------------------------------ C2
\* C2: no collect click and no deposit click, on any cache, changes the
\* number of coins in all caches of the ledger plus the size of the
\* inventory; so the sum is the same after any sequence of them.
C2_Conservation ==
  [][(\E c \in DOMAIN rects, value \in -1..3 :
        CollectClick(c, value) \/ DepositClick(c, value))
       => TotalCoins' = TotalCoins]_vars

\* a deposit has moved a coin from the inventory into a cache
C2_Witness ==
  /\ last.op = "deposit"
  /\ last.moved
  /\ TotalCoins >= 2

\* ------------------------------------------------------------------ C3
\* what a reload of the page makes of the snapshot of the present state
ReloadedSave == PageLoad(saveGameState(Page))

\* the page q shows the location, the trail and the inventory of the saved
\* game g and, for each of its caches, the same coins (id, cell, serial)
Reproduces(q, g) ==
  /\ q.playerLocation = g.playerLocation
  /\ q.movementHistory = g.movementHistory
  /\ CoinDatas(q.playerCoins) = g.playerCoins
  /\ \A k \in DOMAIN g.cacheStates :
       /\ MapHas(q.h.memento, g.cacheStates[k].key)
       /\ SameBag(CoinDatas(MapGet(q.h.memento, g.cacheStates[k].key)),
                  g.cacheStates[k].coins)

\* C3: for every reachable state, saveGameState followed by a page reload
\* and loadGameState gives the same player location, the same trail, the
\* same inventory and, for every cache of the ledger, the same multiset of
\* coins by coinID, origin cell and serial; and whenever the page has just
\* been loaded from a saved game, it shows that saved game.
C3_RoundTrip ==
  /\ ~ReloadedSave.threw
  /\ Reproduces(ReloadedSave.page, gameStateOf(Page))
  /\ (last.op = "load" /\ storage.kind = "json")
       => Reproduces(Page, storage.gameState)

\* the page was loaded from a saved game with a trail and an inventory, and
\* a coin of the inventory is a new object that carries its saved id
C3_Witness ==
  /\ last.op = "load"
  /\ storage.kind = "json"
  /\ Len(movementHistory) > 0
  /\ \E k \in DOMAIN playerCoins : playerCoins[k].obj # playerCoins[k].coinID

\* ------------------------------------------------------------------ C4
\* C4: a refresh of the neighbourhood by a step or by a position update
\* leaves every entry the ledger already has with exactly the same coins in
\* the same order, and the coins it constructs all go to cells that had no
\* entry.
C4_IdempotentLazyGeneration ==
  [][last'.op \in {"move", "position"} =>
       /\ \A key \in MapKeys(cacheStateMemento) :
            /\ MapHas(cacheStateMemento', key)
            /\ MapGet(cacheStateMemento', key) = MapGet(cacheStateMemento, key)
       /\ \A k \in DOMAIN cacheStateMemento' :
            (\E n \in DOMAIN cacheStateMemento'[k].coins :
               cacheStateMemento'[k].coins[n].obj >= nextID)
              => ~MapHas(cacheStateMemento, cacheStateMemento'[k].key)
       /\ nextID' - nextID =
            Len(LedgerCoins(cacheStateMemento', 1)) - Len(LedgerCoins(cacheStateMemento, 1))]_vars

\* a position update has brought the player back to the start cell, whose
\* cache had been emptied before: the entry is shown again, still empty
C4_Witness ==
  /\ last.op = "position"
  /\ CellOf(playerLocation) = StartCell
  /\ CellA \in DOMAIN rects
  /\ MapGet(cacheStateMemento, CellA) = <<>>
  /\ Len(playerCoins) > 0

\* ------------------------------------------------------------------ C5
\* C5 (as the spec states it): after every handler that changes the player
\* location, the trail, the inventory or the ledger (step, position update,
\* collect, deposit) the stored snapshot equals the state in memory.  The
\* code breaks it: the watchPosition callback never calls saveGameState.
C5_EveryMutationSaves ==
  [][(/\ last'.op \in {"move", "position", "collect", "deposit"}
      /\ <<playerLocation, movementHistory, playerCoins, cacheStateMemento>>'
           # <<playerLocation, movementHistory, playerCoins, cacheStateMemento>>)
       => storage' = saveGameState(Page)']_vars

\* ------------------------------------------------------------------ C6
\* the default start state: default location, empty trail, empty inventory,
\* the ledger holding only the freshly generated start neighbourhood
DefaultStart ==
  /\ playerLocation = OAKES_CLASSROOM
  /\ movementHistory = <<>>
  /\ playerCoins = <<>>
  /\ cacheStateMemento = FreshPage.h.memento

\* C6 (as the spec states it): when the stored entry is absent, is no JSON
\* or lacks a field, the page load ends in the default start state and with
\* the reset handler installed.  The code breaks it: loadGameState has no
\* try/catch, the exception leaves it after part of the state was replaced,
\* and the module stops before the reset listener is registered.
C6_CorruptSaveIsNoSave ==
  (last.op = "load" /\ (storage.kind # "json" \/ storage.fields # AllFields))
    => (DefaultStart /\ resetInstalled)

\* ------------------------------------------------------------------ C7
\* C7: after the reset handler the player is at the default start location,
\* the trail and the inventory are empty, and the ledger holds the caches of
\* the start neighbourhood only, each coin of which was constructed by this
\* reset (none existed before it).
C7_ResetRestoresDefault ==
  [][last'.op = "reset" =>
       /\ playerLocation' = OAKES_CLASSROOM
       /\ movementHistory' = <<>>
       /\ playerCoins' = <<>>
       /\ MapKeys(cacheStateMemento') = SpawnCells(StartCell)
       /\ \A k \in DOMAIN cacheStateMemento' :
            \A n \in DOMAIN cacheStateMemento'[k].coins :
              /\ cacheStateMemento'[k].coins[n].obj >= nextID
              /\ cacheStateMemento'[k].coins[n] \notin
                   {HeldCoins[m] : m \in DOMAIN HeldCoins}]_vars

\* the reset ran on a page that had constructed coins three times before
C7_Witness ==
  /\ last.op = "reset"
  /\ Len(globalCoinRegistry) >= 3
  /\ playerLocation = OAKES_CLASSROOM

\* ------------------------------------------------------------------ C8
\* C8 (as the spec states it): when tracking is toggled on without
\* geolocation support, or the position watch reports an error, tracking is
\* off after the alert.  The code breaks it: the error callback only logs
\* and alerts, isTrackingLocation stays true and the button stays green.
C8_GeoFailureLeavesTrackingOff ==
  last.op \in {"unsupported", "positionError"}
    => (~isTrackingLocation /\ buttonColor # "lightgreen")

\* ------------------------------------------------------------------ C9
\* C9: a collect click on a cache whose ledger entry has no coins, and a
\* deposit click while the inventory is empty, move nothing and leave the
\* ledger, the inventory, the player location, the trail and the stored
\* snapshot unchanged.
C9_NothingToMoveIsNoOp ==
  [][\A c \in DOMAIN rects, value \in -1..3 :
       (\/ CollectClick(c, value) /\ MapHas(cacheStateMemento, c)
                                  /\ MapGet(cacheStateMemento, c) = <<>>
        \/ DepositClick(c, value) /\ playerCoins = <<>>)
         => /\ ~last'.moved
            /\ UNCHANGED <<cacheStateMemento, playerCoins, playerLocation,
                           movementHistory, storage>>]_vars

\* a deposit click found the inventory empty, with a snapshot stored
C9_Witness ==
  /\ last.op = "deposit"
  /\ ~last.moved
  /\ playerCoins = <<>>
  /\ storage.kind = "json"

\* ----------------------------------------------------------------- C10
Opposite(dir) ==
  CASE dir = "north" -> "south"
    [] dir = "south" -> "north"
    [] dir = "east"  -> "west"
    [] dir = "west"  -> "east"
    [] OTHER -> ""

\* C10 (as the spec states it): a step immediately followed by a step in
\* the opposite direction leaves the player in the cell the first step
\* left.  The code breaks it: each step adds or subtracts 1e-4 in binary64
\* and rounds, so the second step need not give back the first latitude,
\* and Math.floor(lat / 1e-4) of the result can be the cell next to it.
C10_MovementInverse ==
  (last.op = "move" /\ last.prevDir # "" /\ last.prevDir = Opposite(last.dir))
    => CellOf(playerLocation) = last.prevFrom

\* ----------------------------------------------------------------- C11
\* C11 (as the spec states it): once tracking has been toggled off, no
\* position callback, not even one pending when the watch was cleared, moves
\* the player or refreshes the neighbourhood until tracking is toggled on
\* again; so a position callback only ever runs with tracking on.  The code
\* breaks it: the callback does not look at isTrackingLocation, and the
\* handler relies on clearWatch alone, which does not withdraw a task that
\* is already queued.
C11_NoCallbackWhileTrackingOff ==
  last.op = "position" => isTrackingLocation

\* ----------------------------------------------------------------- C12
\* C12 (as the spec states it): every change of the player's location, by a
\* step or by a position update, appends the new location to the trail, so
\* a trail that is not empty ends at the player's location.  The code
\* breaks it: the watchPosition callback moves the player and appends
\* nothing.
C12_TrailEndsAtPlayer ==
  movementHistory # <<>> =>
    movementHistory[Len(movementHistory)] = <<playerLocation.lat, playerLocation.lng>>

\* ----------------------------------------------------------------- C13
\* C13: in every state (each is reached by a collect, a deposit or a handler
\* that ends in a neighbourhood refresh) the coin array that the popup of a
\* displayed cell reads and mutates holds the same coins in the same order
\* as the ledger entry of that cell, which exists; a cell has one rectangle
\* at most, rects being a function of the cell.
C13_LedgerIsSourceOfTruth ==
  \A c \in DOMAIN rects :
    /\ MapHas(cacheStateMemento, c)
    /\ rects[c] = MapGet(cacheStateMemento, c)

\* a deposit has put a coin of another cell into a displayed cache
C13_Witness ==
  /\ last.op = "deposit"
  /\ last.moved
  /\ \E c \in DOMAIN rects :
       \E k \in DOMAIN rects[c] : <<rects[c][k].i, rects[c][k].j>> # c

\* ----------------------------------------------------------------- C14
\* the sequence a without its n-th element
RemoveAt(a, n) == SubSeq(a, 1, n - 1) \o SubSeq(a, n + 1, Len(a))

\* every ledger entry but that of cell c stays as it is, and so do the
\* player location and the trail
FrameOfTransfer(c) ==
  /\ MapKeys(cacheStateMemento') = MapKeys(cacheStateMemento)
  /\ \A key \in MapKeys(cacheStateMemento) \ {c} :
       MapGet(cacheStateMemento', key) = MapGet(cacheStateMemento, key)
  /\ UNCHANGED <<playerLocation, movementHistory>>

\* C14: a collect that moves a coin takes exactly the selected coin out of
\* the ledger entry of its cache and puts that coin (same object, so same
\* coinID, cell and serial) at the end of the inventory; a deposit that
\* moves a coin takes exactly the selected coin out of the inventory and
\* puts it at the end of the entry; every other entry, the player location
\* and the trail stay as they are.
C14_TransferFrame ==
  [][\A c \in DOMAIN rects, value \in 0..3 :
       /\ (CollectClick(c, value) /\ last'.moved) =>
            /\ playerCoins' =
                 Append(playerCoins, MapGet(cacheStateMemento, c)[value + 1])
            /\ MapGet(cacheStateMemento', c) =
                 RemoveAt(MapGet(cacheStateMemento, c), value + 1)
            /\ FrameOfTransfer(c)
       /\ (DepositClick(c, value) /\ last'.moved) =>
            /\ MapGet(cacheStateMemento', c) =
                 Append(MapGet(cacheStateMemento, c), playerCoins[value + 1])
            /\ playerCoins' = RemoveAt(playerCoins, value + 1)
            /\ FrameOfTransfer(c)]_vars

\* a deposit has moved one of several coins of the inventory
C14_Witness ==
  /\ last.op = "deposit"
  /\ last.moved
  /\ Len(playerCoins) >= 1

\* ----------------------------------------------------------------- C15
\* the cell one grid unit from cell c in direction dir
Neighbour(c, dir) ==
  CASE dir = "north" -> <<c[1] + 1, c[2]>>
    [] dir = "south" -> <<c[1] - 1, c[2]>>
    [] dir = "east"  -> <<c[1], c[2] + 1>>
    [] dir = "west"  -> <<c[1], c[2] - 1>>

\* C15 (as the spec states it): a step changes one coordinate only, and by
\* exactly one grid unit in its direction, so that the player's cell is the
\* neighbour of the cell left; it appends the new location, and nothing
\* else, to the trail; the inventory and every populated cache stay as they
\* are.  The code breaks the first part: it adds 1e-4 to a binary64
\* latitude or longitude and rounds, and Math.floor(x / 1e-4) of the result
\* can be two cells away from the cell left.
C15_StepFrame ==
  [][(last'.op = "move" /\ movementHistory' # movementHistory) =>
       /\ CellOf(playerLocation') = Neighbour(CellOf(playerLocation), last'.dir)
       /\ last'.dir \in {"north", "south"} => playerLocation'.lng = playerLocation.lng
       /\ last'.dir \in {"east", "west"} => playerLocation'.lat = playerLocation.lat
       /\ movementHistory' =
            Append(movementHistory, <<playerLocation'.lat, playerLocation'.lng>>)
       /\ playerCoins' = playerCoins
       /\ \A key \in MapKeys(cacheStateMemento) :
            /\ MapHas(cacheStateMemento', key)
            /\ MapGet(cacheStateMemento', key) = MapGet(cacheStateMemento, key)]_vars

\* ----------------------------------------------------------------- C16
\* the cells the placement function favours in the part of the world the
\* player can reach
FavouredCells == {CellA, CellB, CellZ, CellC, CellD}

\* cell c lies within NEIGHBORHOOD_SIZE cells of cell o in both i and j
Within(c, o) ==
  /\ c[1] - o[1] \in (-NEIGHBORHOOD_SIZE)..NEIGHBORHOOD_SIZE
  /\ c[2] - o[2] \in (-NEIGHBORHOOD_SIZE)..NEIGHBORHOOD_SIZE

\* C16: in every state (each follows a neighbourhood refresh at the player's
\* location) the displayed caches are exactly the cells within 8 cells of
\* the player's cell in both i and j whose placement value is below the
\* spawn probability: no rectangle of an earlier neighbourhood is left, and
\* every displayed cell has a ledger entry.
C16_DisplayedCaches ==
  LET o == CellOf(playerLocation) IN
  /\ \A c \in DOMAIN rects :
       /\ Within(c, o)
       /\ luck(<<c[1], c[2]>>) < CACHE_SPAWN_PROBABILITY
       /\ MapHas(cacheStateMemento, c)
  /\ \A c \in FavouredCells : Within(c, o) => c \in DOMAIN rects
  /\ DOMAIN rects = SpawnCells(o)

\* a position update has taken the player away from every cache: the
\* rectangles of the start neighbourhood are gone, its ledger entry is kept
C16_Witness ==
  /\ last.op = "position"
  /\ DOMAIN rects = {}
  /\ MapHas(cacheStateMemento, CellA)

\* ----------------------------------------------------------------- C17
\* the page q is in the default start state
IsDefaultStart(q) ==
  /\ q.playerLocation = OAKES_CLASSROOM
  /\ q.movementHistory = <<>>
  /\ q.playerCoins = <<>>
  /\ q.h.memento = FreshPage.h.memento

\* C17: when the reset handler has run, local storage holds no saved game,
\* and a page load from what it holds ends, without exception, in the
\* default start state; and every page just loaded with nothing stored is
\* in the default start state.
C17_ResetClearsBlob ==
  /\ last.op = "reset" =>
       /\ storage.kind = "none"
       /\ ~PageLoad(storage).threw
       /\ IsDefaultStart(PageLoad(storage).page)
  /\ (last.op = "load" /\ storage.kind = "none") => IsDefaultStart(Page)

\* the reset ran on a game in which a step had been saved: the registry
\* still holds the coin of the cache that the step north revealed
C17_Witness ==
  /\ last.op = "reset"
  /\ storage.kind = "none"
  /\ \E k \in DOMAIN globalCoinRegistry :
       <<globalCoinRegistry[k].i, globalCoinRegistry[k].j>> = CellB

\* ----------------------------------------------------------------- C18
\* C18: the inventory followed by every ledger entry never holds the same
\* coin object at two positions (so no coin is in the inventory and a cache,
\* in two caches, or twice in one list), and never holds undefined.
C18_ExclusiveOwnership ==
  /\ \A a, b \in DOMAIN HeldCoins :
       a # b => HeldCoins[a].obj # HeldCoins[b].obj
  /\ \A a \in DOMAIN HeldCoins : HeldCoins[a] # Undefined

\* a coin was deposited into a cache of another cell while the player
\* still holds a coin
C18_Witness ==
  /\ last.op = "deposit" /\ last.moved
  /\ playerCoins # <<>>
  /\ \E e \in DOMAIN cacheStateMemento :
       \E k \in DOMAIN cacheStateMemento[e].coins :
          LET coin == cacheStateMemento[e].coins[k]
          IN  <<coin.i, coin.j>> # cacheStateMemento[e].key

\* ----------------------------------------------------------------- C19
\* cells on which spawnCache is tried: the favoured ones and one whose
\* coinCount value gives the largest count
ProbeCells == FavouredCells \cup {<<0, 0>>}

\* spawnCache on a cell c without ledger entry: the coins it stores
FreshlyPopulated(c) == MapGet(spawnCache(Page.h, c).memento, c)

\* C19: spawnCache on a cell without ledger entry stores between 0 and 4
\* coins, each with that cell as origin and with serials 0, 1, ... in order;
\* and no two coins held by the inventory or a cache have the same origin
\* cell and serial.
C19_OriginSerialIdentifiesCoin ==
  /\ \A c \in ProbeCells :
       ~MapHas(cacheStateMemento, c) =>
          /\ Len(FreshlyPopulated(c)) \in 0..4
          /\ \A k \in DOMAIN FreshlyPopulated(c) :
               /\ <<FreshlyPopulated(c)[k].i, FreshlyPopulated(c)[k].j>> = c
               /\ FreshlyPopulated(c)[k].serial = k - 1
  /\ \A a, b \in DOMAIN HeldCoins :
       a # b => <<HeldCoins[a].i, HeldCoins[a].j, HeldCoins[a].serial>>
                  # <<HeldCoins[b].i, HeldCoins[b].j, HeldCoins[b].serial>>

\* the reset ran: the start cache has been populated a second time, with
\* a coin made later than the first one, and a cell with the largest count
\* is still to be populated
C19_Witness ==
  /\ last.op = "reset"
  /\ MapHas(cacheStateMemento, CellA)
  /\ Len(MapGet(cacheStateMemento, CellA)) = 1
  /\ MapGet(cacheStateMemento, CellA)[1].obj >= 1
  /\ Len(FreshlyPopulated(<<0, 0>>)) = 4

\* ----------------------------------------------------------------- C20
\* the registry entries of part_000 whose currentOwner is "player"
PlayerOwned0 ==
  {n \in DOMAIN simple.registry : simple.registry[n].currentOwner = OwnedByPlayer}

\* the positions <<cache, index>> at which the coin with this id is listed
ListedAt0(id) ==
  {x \in {<<k, m>> : k \in DOMAIN simple.caches, m \in DOMAIN simple.registry} :
     /\ x[2] \in DOMAIN simple.caches[x[1]].coins
     /\ simple.caches[x[1]].coins[x[2]] = id}

\* the coins the caches of part_000 hold once its top-level code has run
RECURSIVE SumLen0(_, _)
SumLen0(cs, k) == IF k > Len(cs) THEN 0 ELSE Len(cs[k].coins) + SumLen0(cs, k + 1)
CachedCount0Start == SumLen0(SimplePage.caches, 1)
CachedCount0 == SumLen0(simple.caches, 1)

\* C20: in part_000 playerPoints is the number of registry coins owned by
\* "player"; a coin owned by the player is in no cache list and every other
\* coin is at exactly one position of exactly one cache list; and the coins
\* in all caches plus playerPoints are as many as at the start.
C20_PointsMatchOwnership ==
  /\ simple.playerPoints = Cardinality(PlayerOwned0)
  /\ \A n \in DOMAIN simple.registry :
       Cardinality(ListedAt0(simple.registry[n].coinID))
         = IF n \in PlayerOwned0 THEN 0 ELSE 1
  /\ CachedCount0 + simple.playerPoints = CachedCount0Start

\* the player holds two coins and a cache lists a coin made for another cell
C20_Witness ==
  /\ simple.playerPoints >= 2
  /\ \E k \in DOMAIN simple.caches :
       \E m \in DOMAIN simple.caches[k].coins :
          LET coin == simple.registry[simple.caches[k].coins[m] + 1]
          IN  <<coin.i, coin.j>> # simple.caches[k].cell

\* ----------------------------------------------------------------- C21
\* Coin.nextID is greater than the coinID of every coin held by the
\* inventory or a cache
CounterAhead ==
  \A a \in DOMAIN HeldCoins : HeldCoins[a].coinID < nextID

\* every entry of globalCoinRegistry is keyed by the coinID of its coin
\* (entry k of the sequence has the key k - 1)
RegistryKeyedByCoinID ==
  \A k \in DOMAIN globalCoinRegistry : globalCoinRegistry[k].coinID = k - 1

\* C21 (as the spec states it): in every reachable state Coin.nextID is
\* greater than the coinID of every coin held by the inventory or a cache,
\* and every entry of globalCoinRegistry is keyed by the coinID of the coin
\* it holds.  The code breaks both: loadGameState registers each rebuilt
\* coin under the id its constructor drew and then overwrites coinID with
\* the saved id, and the counter is never moved past the saved ids.
C21_CounterAheadOfLiveCoins == CounterAhead /\ RegistryKeyedByCoinID

====
